---- MODULE Spec2Model ----
(***************************************************************************)
(* Model of data/data_loader.py: the spectrogram cache protocol of         *)
(* SpectrogramParser.load_audio_cache / SpectrogramParser.parse_audio, run  *)
(* by several data-loading workers over one cache key (one audio file, one  *)
(* channel selector) and the three tempo variants of TEMPOS.                *)
(*                                                                         *)
(* The file system is modelled at the level of the system calls the code    *)
(* makes: open(path, "wb") creates or truncates the file a name refers to,  *)
(* write() stores at the writer's own offset in the file its descriptor     *)
(* refers to (whatever name that file has by then), os.rename and           *)
(* shutil.move replace the target name atomically, os.unlink removes a      *)
(* name.  np.save writes a file in NChunks write() calls.  np.load is taken  *)
(* to unpickle object arrays (the numpy the code was written against).      *)
(***************************************************************************)
EXTENDS Integers, Sequences, FiniteSets, TLC

\* ---------------------------------------------------------------- bounds
NWorkers == 2    \* data-loading workers sharing the cache directory
MaxCalls == 2    \* parse_audio calls started in one run, all workers together
NChunks == 2     \* write() calls np.save needs for one cache file
NGains == 2      \* distinct outcomes of the random gain (and noise) draws
NJitters == 2    \* distinct outcomes of torch.rand(1) - 0.5
MaxFaults == 1   \* KeyboardInterrupts and OS write errors delivered in one run

MaxReplicas == 3 \* processes (ranks), each with a sampler instance of its own
NNames == 2      \* names the audio file is given over time
NContents == 2   \* distinct byte contents of the audio file
MaxEntries == 2  \* cache files created in one run
MaxSamples == 3  \* len(data_source) when a sampler is constructed
MaxBatch == 2    \* batch_size of a sampler
MaxEpoch == 1    \* epochs run from 0 to MaxEpoch
MaxShuffles == 2 \* shuffle calls in one run, all samplers together
NRng == 2        \* states the first process's np.random generator can start in
MaxRows == 3     \* samples in a batch handed to _collate_fn
MaxFrames == 3   \* time length of a sample's feature tensor
MaxTarget == 2   \* length of a sample's label sequence

Workers == 1..NWorkers
Procs == 0..(MaxReplicas - 1)
Gains == 1..NGains
Jitters == 1..NJitters
Names == 1..NNames
Epochs == 0..MaxEpoch
Contents == 1..NContents

\* ------------------------------------------------------- program constants
\* TEMPOS: the tempo variant ids; 0 is the canonical tempo range (1.0, 1.0).
TEMPOS == {0, 1, 2}

\* self.normalize as configured: two recognised modes and an unrecognised one.
Modes == {"mean", "max_frame", "bogus"}
\* The modes normalize_audio has a branch for.
KnownModes == {"mean", "norm", "frame", "max_frame", "none"}

\* ------------------------------------------------------------------ values
\* A spectrogram tensor: the gain draw it was computed under (0: a blend of
\* several computations), the normalization applied ("raw": none yet), and
\* the jitter added to it (0: none).
NoSpect == [gain |-> 0, norm |-> "nil", jit |-> 0]
Hole == [gain |-> 0, norm |-> "hole"]
Junk == [gain |-> 0, norm |-> "junk"]

\* A sampler's __iter__ has not been called since it was last shuffled.
NotYielded == [ok |-> TRUE, called |-> FALSE, samples |-> <<>>]

\* set_curriculum_epoch has not been called.
NotCalled == [epoch |-> 0, sample |-> FALSE, called |-> FALSE]

\* __getitem__ has not been called since self.ids was last set.
NoItem == [ok |-> TRUE, index |-> -1, sample |-> 0]

\* _collate_fn has not been called.
NotCollated == [called |-> FALSE]

\* A name of the file system: absent, or a file holding a sequence of chunks.
NoFile == [ex |-> FALSE, data |-> <<>>]
FileOf(c) == [ex |-> TRUE, data |-> [i \in 1..NChunks |-> c]]

VARIABLES
    augment,    \* self.augment
    normalize,  \* self.normalize
    cache,      \* cache_fn of each tempo variant
    old,        \* old_cache_fn (legacy path) of each tempo variant
    tmp,        \* str(cache_fn) + '.tmp.npy' of tempo variant 0
    pc,         \* each worker's position in parse_audio; "idle" before its
                \* first call, "returned" or "raised" after a call
    tempo_id,   \* each worker's tempo_id
    spect,      \* each worker's spect; after a return, the tensor returned
    lookup,     \* what load_audio_cache gave the worker: "none" (not there
                \* yet), "hit", "miss" (no file) or "bad" (np.load raised, caught)
    fd,         \* the name the file a worker has open for writing now has
    pos,        \* chunks the worker's np.save has written
    intr,       \* whether a KeyboardInterrupt reached the worker's try block
    err,        \* the exception that left the worker's call, "none" if none
    prev,       \* the tensor the worker's previous call returned, when that
                \* call was for tempo variant 0 (NoSpect otherwise)
    ncalls,     \* parse_audio calls started
    nfaults,    \* faults delivered
    \* -- load_audio_cache's key derivation
    audio,      \* the audio file on disk: its name (f_path.name) and its bytes
    channel,    \* self.channel
    entries,    \* the cache_fn paths that exist
    found,      \* the last lookup: its tempo_id and whether cache_fn existed
    \* -- BucketingSampler / DistributedBucketingSampler, one instance a process
    data_len,   \* len(data_source) when the samplers were constructed
    batch_size, \* batch_size the samplers were constructed with
    num_replicas, \* self.num_replicas: the number of processes (ranks)
    bins,       \* self.bins of each process's sampler
    epochs,     \* the epochs each process's sampler was shuffled with, in order
    yielded,    \* what each process's last __iter__ gave
    nprng,      \* the state of each process's np.random generator
    \* -- SpectrogramDataset
    lists,      \* the list objects the dataset refers to
    ids,        \* self.ids: the list object it refers to (self.all_ids is "all")
    size,       \* self.size
    last,       \* the arguments of the last set_curriculum_epoch call
    item,       \* what the last __getitem__ read from self.ids
    \* -- _collate_fn
    batch,      \* the batch handed to _collate_fn
    collated    \* what _collate_fn returned

cachevars == <<augment, normalize, cache, old, tmp, pc, tempo_id, spect, lookup, fd, pos,
               intr, err, prev, ncalls, nfaults>>
keyvars == <<audio, channel, entries, found>>
samplervars == <<data_len, batch_size, num_replicas, bins, epochs, yielded, nprng>>
datasetvars == <<lists, ids, size, last, item>>
collatevars == <<batch, collated>>

\* What the cache protocol of parse_audio leaves alone.
loader == <<keyvars, samplervars, datasetvars, collatevars>>

vars == <<cachevars, loader>>

config == <<augment, normalize>>
files == <<cache, old, tmp>>
\* ------------------------------------------------------------ pure helpers
\* write() of chunk c at offset i of a file holding d: a write past the end of
\* a file another writer truncated leaves a hole before it.
WriteAt(d, i, c) ==
    IF i <= Len(d)
    THEN [d EXCEPT ![i] = c]
    ELSE [k \in 1..i |-> IF k <= Len(d) THEN d[k] ELSE IF k = i THEN c ELSE Hole]

\* A file np.load can deserialize: every chunk of a whole np.save is there.
Complete(f) ==
    /\ f.ex
    /\ Len(f.data) = NChunks
    /\ \A i \in 1..NChunks : f.data[i].norm \notin {"hole", "junk"}

\* The chunks np.save writes for a tensor.
ChunkOf(s) == [gain |-> s.gain, norm |-> s.norm]

\* np.load(cache_fn).item()['spect'] of a complete file: the tensor its
\* chunks make up (gain 0 when they come from different computations).
Unpickle(f) ==
    [gain |-> IF \A i \in 1..NChunks : f.data[i] = f.data[1] THEN f.data[1].gain ELSE 0,
     norm |-> f.data[1].norm,
     jit |-> 0]

\* TryLoad with an np.load that refuses pickled object arrays: every load
\* raises, is caught, and is a miss.
TryLoadNoPickle(f) == [ok |-> FALSE, raised |-> FALSE, spec |-> NoSpect]

\* TryLoad without the except clause: a file that does not deserialize makes
\* the lookup raise.
TryLoadUncaught(f) ==
    [ok |-> Complete(f),
     raised |-> ~Complete(f),
     spec |-> IF Complete(f) THEN Unpickle(f) ELSE NoSpect]

\* load_audio_cache's try/except around np.load: any Exception is caught and
\* leaves spec None.
TryLoad(f) ==
    [ok |-> Complete(f),
     raised |-> FALSE,
     spec |-> IF Complete(f) THEN Unpickle(f) ELSE NoSpect]

\* load_randomly_augmented_audio + audio_to_stft: the magnitude spectrogram of
\* the audio under gain draw g.
AudioToStft(g) == [gain |-> g, norm |-> "raw", jit |-> 0]

\* normalize_audio for a recognised mode.
NormalizeAudio(s, mode) == [s EXCEPT !.norm = mode]

\* What parse_audio hands to np.save at line 180: spect as it is by then,
\* that is, after normalize_audio.
Saved(s) == s

\* What parse_audio uses on a cache hit: the loaded spect as it is.
OnHit(s, mode) == s

\* The tensors parse_audio can return for spect s (lines 186-188): with
\* augment and 'max_frame', s plus a random jitter; otherwise s.
Returns(s) ==
    IF augment /\ normalize = "max_frame"
    THEN {[s EXCEPT !.jit = j] : j \in Jitters}
    ELSE {s}

\* A name change of the file a descriptor refers to.
Retarget(f, w, from, to, gone) ==
    [v \in Workers |->
        IF v = w THEN f[v]
        ELSE IF f[v] = from THEN to
        ELSE IF f[v] = to THEN gone
        ELSE f[v]]

\* ------------------------------------------------------------------- Init
\* The parts of the loader a specification does not exercise stay as they are
\* before anything is constructed.
KeyParked ==
    /\ audio = [name |-> 0, bytes |-> 0]
    /\ channel = -1
    /\ entries = {}
    /\ found = [tempo |-> 0, res |-> "none"]

SamplerParked ==
    /\ data_len = 0
    /\ batch_size = 1
    /\ num_replicas = 1
    /\ bins = [p \in Procs |-> <<>>]
    /\ epochs = [p \in Procs |-> <<>>]
    /\ yielded = [p \in Procs |-> NotYielded]
    /\ nprng = [p \in Procs |-> 0]

DatasetParked ==
    /\ lists = [all |-> <<>>, other |-> <<>>]
    /\ ids = "all"
    /\ size = 0
    /\ last = NotCalled
    /\ item = NoItem

CollateParked ==
    /\ batch = <<>>
    /\ collated = NotCollated

CacheParked ==
    /\ augment = FALSE
    /\ normalize = "mean"
    /\ cache = [t \in TEMPOS |-> NoFile]
    /\ old = [t \in TEMPOS |-> NoFile]
    /\ tmp = NoFile
    /\ pc = [w \in Workers |-> "idle"]
    /\ tempo_id = [w \in Workers |-> 0]
    /\ spect = [w \in Workers |-> NoSpect]
    /\ lookup = [w \in Workers |-> "none"]
    /\ fd = [w \in Workers |-> "none"]
    /\ pos = [w \in Workers |-> 0]
    /\ intr = [w \in Workers |-> FALSE]
    /\ err = [w \in Workers |-> "none"]
    /\ prev = [w \in Workers |-> NoSpect]
    /\ ncalls = 0
    /\ nfaults = 0

Init ==
    /\ augment \in BOOLEAN
    /\ normalize \in Modes
    \* An earlier run (normalize = 'mean') may have left a cache entry for the
    \* canonical variant, or a file that does not deserialize.
    /\ \E f \in {NoFile, FileOf([gain |-> 1, norm |-> "mean"]), FileOf(Junk)} :
          cache = [t \in TEMPOS |-> IF t = 0 THEN f ELSE NoFile]
    \* At most one legacy-path file, of the canonical tempo name or of an
    \* augmented one.
    /\ \E L \in {{}, {0}, {1}} :
          old = [t \in TEMPOS |->
                   IF t \in L
                   THEN FileOf([gain |-> 1, norm |-> "mean"]) ELSE NoFile]
    /\ tmp = NoFile
    /\ pc = [w \in Workers |-> "idle"]
    /\ tempo_id = [w \in Workers |-> 0]
    /\ spect = [w \in Workers |-> NoSpect]
    /\ lookup = [w \in Workers |-> "none"]
    /\ fd = [w \in Workers |-> "none"]
    /\ pos = [w \in Workers |-> 0]
    /\ intr = [w \in Workers |-> FALSE]
    /\ err = [w \in Workers |-> "none"]
    /\ prev = [w \in Workers |-> NoSpect]
    /\ ncalls = 0
    /\ nfaults = 0
    /\ KeyParked /\ SamplerParked /\ DatasetParked /\ CollateParked
\* ---------------------------------------------------------------- actions
\* The worker moves on to position p, its locals unchanged.
Goes(w, p) ==
    /\ pc' = [pc EXCEPT ![w] = p]
    /\ UNCHANGED <<spect, lookup, pos, intr, err>>

\* Exception e leaves the worker's parse_audio call.
Raises(w, e) ==
    /\ pc' = [pc EXCEPT ![w] = "raised"]
    /\ err' = [err EXCEPT ![w] = e]
    /\ spect' = [spect EXCEPT ![w] = NoSpect]
    /\ pos' = [pos EXCEPT ![w] = 0]
    /\ UNCHANGED intr

\* The worker is not inside parse_audio.
Out(w) == pc[w] \in {"idle", "returned", "raised"}

\* parse_audio is entered: tempo_id is drawn, and load_audio_cache tests
\* os.path.exists(old_cache_fn) and not os.path.exists(cache_fn).  The
\* workers run the same code: they are numbered in the order of their first
\* call.
Call(w) ==
    /\ Out(w)
    /\ pc[w] = "idle" => \A v \in 1..(w - 1) : pc[v] # "idle"
    /\ ncalls < MaxCalls
    /\ \E t \in (IF augment THEN TEMPOS ELSE {0}) :
          /\ tempo_id' = [tempo_id EXCEPT ![w] = t]
          /\ pc' = [pc EXCEPT ![w] =
                     IF old[t].ex /\ ~cache[t].ex THEN "move" ELSE "exists"]
    /\ ncalls' = ncalls + 1
    /\ prev' = [prev EXCEPT ![w] =
                  IF pc[w] = "returned" /\ tempo_id[w] = 0 THEN spect[w] ELSE NoSpect]
    /\ spect' = [spect EXCEPT ![w] = NoSpect]
    /\ lookup' = [lookup EXCEPT ![w] = "none"]
    /\ intr' = [intr EXCEPT ![w] = FALSE]
    /\ err' = [err EXCEPT ![w] = "none"]
    /\ UNCHANGED <<loader, config, files, fd, pos, nfaults>>

\* The miss branch up to the cache write, after a lookup that ended as lk:
\* load_randomly_augmented_audio draws the gain, audio_to_stft,
\* normalize_audio (which raises on an unknown mode).
Compute(w, lk) ==
    /\ lookup' = [lookup EXCEPT ![w] = lk]
    /\ \E g \in Gains :
         IF normalize \notin KnownModes
         THEN Raises(w, "normalize")
         ELSE /\ spect' = [spect EXCEPT ![w] = NormalizeAudio(AudioToStft(g), normalize)]
              /\ pc' = [pc EXCEPT ![w] = IF tempo_id[w] = 0 THEN "open" ELSE "finish"]
              /\ UNCHANGED <<pos, intr, err>>

\* shutil.move(old_cache_fn, cache_fn); it raises when the legacy file is gone.
Move(w) ==
    /\ pc[w] = "move"
    /\ LET t == tempo_id[w] IN
         IF old[t].ex
         THEN /\ cache' = [cache EXCEPT ![t] = old[t]]
              /\ old' = [old EXCEPT ![t] = NoFile]
              /\ fd' = IF t = 0 THEN Retarget(fd, w, "old", "cache", "orphan") ELSE fd
              /\ Goes(w, "exists")
         ELSE /\ Raises(w, "move")
              /\ UNCHANGED <<cache, old, fd, lookup>>
    /\ UNCHANGED <<loader, config, tmp, tempo_id, prev, ncalls, nfaults>>

\* if os.path.exists(cache_fn): a miss when it does not, and parse_audio
\* computes the spectrogram.
Exists(w) ==
    /\ pc[w] = "exists"
    /\ IF cache[tempo_id[w]].ex
       THEN Goes(w, "load")
       ELSE Compute(w, "miss")
    /\ UNCHANGED <<loader, config, files, tempo_id, fd, prev, ncalls, nfaults>>

\* spec = np.load(cache_fn).item()['spect'] inside try/except Exception: a
\* file that does not load is a miss, and parse_audio computes the spectrogram.
Load(w) ==
    /\ pc[w] = "load"
    /\ LET r == TryLoad(cache[tempo_id[w]]) IN
         IF r.raised
         THEN Raises(w, "load") /\ UNCHANGED lookup
         ELSE IF r.ok
         THEN /\ spect' = [spect EXCEPT ![w] = OnHit(r.spec, normalize)]
              /\ lookup' = [lookup EXCEPT ![w] = "hit"]
              /\ pc' = [pc EXCEPT ![w] = "finish"]
              /\ UNCHANGED <<pos, intr, err>>
         ELSE Compute(w, "bad")
    /\ UNCHANGED <<loader, config, files, tempo_id, fd, prev, ncalls, nfaults>>

\* np.save opens str(cache_fn) + '.tmp.npy' for writing: the file the name
\* refers to is created, or truncated if another worker's is there.
Open(w) ==
    /\ pc[w] = "open"
    /\ tmp' = [ex |-> TRUE, data |-> <<>>]
    /\ fd' = [fd EXCEPT ![w] = "tmp"]
    /\ Goes(w, "write")
    /\ UNCHANGED <<loader, config, cache, old, tempo_id, prev, ncalls, nfaults>>

\* One write() of np.save, at the worker's own offset of the file it opened;
\* after the last one the file is closed.
Write(w) ==
    /\ pc[w] = "write"
    /\ LET i == pos[w] + 1
           c == ChunkOf(Saved(spect[w]))
       IN /\ tmp' = IF fd[w] = "tmp" THEN [tmp EXCEPT !.data = WriteAt(@, i, c)] ELSE tmp
          /\ cache' = IF fd[w] = "cache"
                       THEN [cache EXCEPT ![0].data = WriteAt(@, i, c)] ELSE cache
          /\ pos' = [pos EXCEPT ![w] = IF i = NChunks THEN 0 ELSE i]
          /\ pc' = [pc EXCEPT ![w] = IF i = NChunks THEN "rename" ELSE "write"]
          /\ fd' = [fd EXCEPT ![w] = IF i = NChunks THEN "none" ELSE @]
    /\ UNCHANGED <<loader, config, old, tempo_id, spect, lookup, intr, err, prev, ncalls, nfaults>>

\* Rename with a failed rename handled like the interrupt: cache_fn is
\* unlinked and the worker goes on.
RenameUnlinkOnFail(w) ==
    /\ pc[w] = "rename"
    /\ IF tmp.ex
       THEN /\ cache' = [cache EXCEPT ![0] = tmp]
            /\ tmp' = NoFile
            /\ fd' = Retarget(fd, w, "tmp", "cache", "orphan")
       ELSE /\ cache' = [cache EXCEPT ![0] = NoFile]
            /\ fd' = Retarget(fd, w, "none", "cache", "orphan")
            /\ UNCHANGED tmp
    /\ Goes(w, "finish")
    /\ UNCHANGED <<loader, config, old, tempo_id, prev, ncalls, nfaults>>

\* os.rename(str(cache_fn) + '.tmp.npy', cache_fn); FileNotFoundError when
\* another worker has renamed the shared temporary file already.
Rename(w) ==
    /\ pc[w] = "rename"
    /\ IF tmp.ex
       THEN /\ cache' = [cache EXCEPT ![0] = tmp]
            /\ tmp' = NoFile
            /\ fd' = Retarget(fd, w, "tmp", "cache", "orphan")
            /\ Goes(w, "finish")
       ELSE /\ Raises(w, "rename")
            /\ UNCHANGED <<cache, tmp, fd, lookup>>
    /\ UNCHANGED <<loader, config, old, tempo_id, prev, ncalls, nfaults>>

\* The worker is inside the try block of the cache write, os.rename done.
Renamed(w) ==
    /\ pc[w] = "finish"
    /\ tempo_id[w] = 0
    /\ lookup[w] \in {"miss", "bad"}
    /\ ~intr[w]

\* A KeyboardInterrupt reaches the worker inside the try block: np.save's
\* file is closed as the exception unwinds, and the except clause is entered.
Interrupt(w) ==
    /\ pc[w] \in {"open", "write", "rename"} \/ Renamed(w)
    /\ nfaults < MaxFaults
    /\ nfaults' = nfaults + 1
    /\ intr' = [intr EXCEPT ![w] = TRUE]
    /\ fd' = [fd EXCEPT ![w] = "none"]
    /\ pos' = [pos EXCEPT ![w] = 0]
    /\ pc' = [pc EXCEPT ![w] = "except"]
    /\ UNCHANGED <<loader, config, files, tempo_id, spect, lookup, err, prev, ncalls>>

\* except KeyboardInterrupt: os.unlink(cache_fn).  The interrupt is not
\* raised again; os.unlink raises FileNotFoundError when cache_fn is absent.
Unlink(w) ==
    /\ pc[w] = "except"
    /\ IF cache[0].ex
       THEN /\ cache' = [cache EXCEPT ![0] = NoFile]
            /\ fd' = Retarget(fd, w, "none", "cache", "orphan")
            /\ Goes(w, "finish")
       ELSE /\ Raises(w, "unlink")
            /\ UNCHANGED <<cache, fd, lookup>>
    /\ UNCHANGED <<loader, config, old, tmp, tempo_id, prev, ncalls, nfaults>>

\* np.save fails with an OSError (disk full, permissions): only
\* KeyboardInterrupt is caught, so it leaves parse_audio.
SaveFail(w) ==
    /\ pc[w] \in {"open", "write"}
    /\ nfaults < MaxFaults
    /\ nfaults' = nfaults + 1
    /\ fd' = [fd EXCEPT ![w] = "none"]
    /\ Raises(w, "save")
    /\ UNCHANGED <<loader, config, files, tempo_id, lookup, prev, ncalls>>

\* The try block is left without an exception; if self.augment and
\* self.normalize == 'max_frame': spect.add_(torch.rand(1) - 0.5); return spect
Finish(w) ==
    /\ pc[w] = "finish"
    /\ \E v \in Returns(spect[w]) : spect' = [spect EXCEPT ![w] = v]
    /\ pc' = [pc EXCEPT ![w] = "returned"]
    /\ UNCHANGED <<lookup, pos, intr, err>>
    /\ UNCHANGED <<loader, config, files, tempo_id, fd, prev, ncalls, nfaults>>

\* The steps of parse_audio itself.
Step(w) ==
    \/ Call(w)
    \/ Move(w)
    \/ Exists(w)
    \/ Load(w)
    \/ Open(w)
    \/ Write(w)
    \/ Rename(w)
    \/ Finish(w)

\* The steps an interrupt or an OS error brings.
Fault(w) ==
    \/ Interrupt(w)
    \/ Unlink(w)
    \/ SaveFail(w)

Next == \E w \in Workers : Step(w) \/ Fault(w)

\* Workers under interrupts and OS errors.
Spec == Init /\ [][Next]_vars

NextNoFault == \E w \in Workers : Step(w)

\* Workers with no interrupt and no OS error delivered.
SpecNoFault == Init /\ [][NextNoFault]_vars

\* ------------------------------------------------------- the cache key
\* self.channel: -1 (average), or a channel number.
Channels == {-1, 0, 1}

\* TEMPOS[tempo_id][0]
TempoName(t) == IF t = 0 THEN "1.0" ELSE IF t = 1 THEN "0.9" ELSE "1.1"

\* chan = 'avg' if self.channel == -1 else str(self.channel)
ChanName(c) == IF c = -1 THEN "avg" ELSE ToString(c)

\* hashlib.sha1(bytes).hexdigest()[:9], as a string of two digits: distinct
\* contents of the model have distinct digests.
Sha1(b) == <<b % 2, b \div 2>>

\* cache_fn = Path(self.cache_path, f_hash[:2], f_path.name + '.' + f_hash[2:]
\* + '.' + tempo_name + '.' + chan + '.npy')
CacheFn(name, bytes, t, c) ==
    [dir |-> Sha1(bytes)[1],
     file |-> <<name, Sha1(bytes)[2], TempoName(t), ChanName(c)>>]

NotFound == [tempo |-> 0, res |-> "none"]

InitKey ==
    /\ audio \in [name : Names, bytes : Contents]
    /\ channel \in Channels
    /\ entries = {}
    /\ found = NotFound
    /\ CacheParked /\ SamplerParked /\ DatasetParked /\ CollateParked

\* A parse_audio call for the audio file leaves a file under its cache_fn
\* (np.save and os.rename, or the migration's shutil.move).
KeySave(t) ==
    /\ Cardinality(entries) < MaxEntries
    /\ entries' = entries \cup {CacheFn(audio.name, audio.bytes, t, channel)}
    /\ found' = NotFound
    /\ UNCHANGED <<audio, channel>>
    /\ UNCHANGED <<cachevars, samplervars, datasetvars, collatevars>>

\* load_audio_cache derives cache_fn and tests os.path.exists(cache_fn).
KeyLookup(t) ==
    /\ found' = [tempo |-> t,
                 res |-> IF CacheFn(audio.name, audio.bytes, t, channel) \in entries
                         THEN "hit" ELSE "miss"]
    /\ UNCHANGED <<audio, channel, entries>>
    /\ UNCHANGED <<cachevars, samplervars, datasetvars, collatevars>>

\* The audio file is renamed, its bytes unchanged.
RenameAudio(n) ==
    /\ n # audio.name
    /\ audio' = [audio EXCEPT !.name = n]
    /\ found' = NotFound
    /\ UNCHANGED <<channel, entries>>
    /\ UNCHANGED <<cachevars, samplervars, datasetvars, collatevars>>

\* The audio file's bytes are changed, its name kept.
EditAudio(b) ==
    /\ b # audio.bytes
    /\ audio' = [audio EXCEPT !.bytes = b]
    /\ found' = NotFound
    /\ UNCHANGED <<channel, entries>>
    /\ UNCHANGED <<cachevars, samplervars, datasetvars, collatevars>>

NextKey ==
    \/ \E t \in TEMPOS : KeySave(t)
    \/ \E t \in TEMPOS : KeyLookup(t)
    \/ \E n \in Names : RenameAudio(n)
    \/ \E b \in Contents : EditAudio(b)

\* One audio file, renamed and edited between lookups.
SpecKey == InitKey /\ [][NextKey]_vars

\* ----------------------------------------------------- random generators
\* One draw of a pseudo-random generator in state x: the state after (a small
\* linear congruential generator stands for the Mersenne Twister; the draw is
\* read off the state).
RngStep(x) == (5 * x + 3) % 16

\* np.random.seed(epoch), g.manual_seed(epoch): the state a seed gives.
Seeded(e) == e % 16

Swap(s, i, j) == [s EXCEPT ![i] = s[j], ![j] = s[i]]

\* The Fisher-Yates shuffle of np.random.shuffle and torch.randperm, from
\* position i down, drawing from a generator in state x: the list and the
\* generator's state afterwards.
RECURSIVE FisherYates(_, _, _)
FisherYates(s, i, x) ==
    IF i <= 1
    THEN [list |-> s, rng |-> x]
    ELSE LET y == RngStep(x) IN FisherYates(Swap(s, i, (y % i) + 1), i - 1, y)

\* np.random.shuffle(s) with the generator in state x.
Shuffled(s, x) == FisherYates(s, Len(s), x)

\* torch.randperm(n, generator=g) after g.manual_seed(e), as 1-based indices.
Randperm(n, e) == Shuffled([i \in 1..n |-> i], Seeded(e)).list

\* [b[i] for i in perm]
Permuted(b, perm) == [i \in 1..Len(perm) |-> b[perm[i]]]

\* --------------------------------------------------------------- samplers
\* ids = list(range(0, len(data_source))); bins = [ids[i:i + batch_size] for
\* i in range(0, len(ids), batch_size)]
MakeBins(n, bs) ==
    [k \in 1..((n + bs - 1) \div bs) |->
        [j \in 1..(IF k * bs <= n THEN bs ELSE n - (k - 1) * bs) |->
            (k - 1) * bs + j - 1]]

\* self.num_samples = int(math.ceil(len(self.bins) * 1.0 / self.num_replicas))
NumSamples(b, R) == (Len(b) + R - 1) \div R

\* self.total_size = self.num_samples * self.num_replicas
TotalSize(b, R) == NumSamples(b, R) * R

\* The processes that run: ranks 0 .. num_replicas - 1.
Ranks == {p \in Procs : p < num_replicas}

\* Samplers as constructed, one a process, over a data source of data_len
\* samples; the processes' np.random generators are in different states.
InitSampler ==
    /\ data_len \in 0..MaxSamples
    /\ batch_size \in 1..MaxBatch
    /\ num_replicas \in 1..MaxReplicas
    /\ bins = [p \in Procs |->
                 IF p < num_replicas THEN MakeBins(data_len, batch_size) ELSE <<>>]
    /\ epochs = [p \in Procs |-> <<>>]
    /\ yielded = [p \in Procs |-> NotYielded]
    /\ \E x \in 0..(NRng - 1) : nprng = [p \in Procs |-> (x + p) % 16]
    /\ CacheParked /\ KeyParked /\ DatasetParked /\ CollateParked

\* The shuffle calls made so far, all samplers together.
RECURSIVE NShuffles(_)
NShuffles(P) ==
    IF P = {} THEN 0
    ELSE LET p == CHOOSE q \in P : TRUE IN Len(epochs[p]) + NShuffles(P \ {p})

\* DistributedBucketingSampler.__iter__ of the sampler of rank `rank` holding
\* bins b: the padding by wrap-around, the assertion, the stride selection.
DistIter(b, rank, R) ==
    LET k == TotalSize(b, R) - Len(b)
        padded == b \o SubSeq(b, 1, IF k <= Len(b) THEN k ELSE Len(b))
    IN IF Len(padded) # TotalSize(b, R)
       THEN [ok |-> FALSE, called |-> TRUE, samples |-> <<>>]
       ELSE [ok |-> TRUE, called |-> TRUE,
             samples |-> [i \in 1..NumSamples(b, R) |-> padded[rank + 1 + (i - 1) * R]]]

\* DistShuffle drawing from the process's np.random generator instead of a
\* generator seeded with the epoch.
DistShuffleProcessRng(p, e) ==
    /\ p \in Ranks
    /\ NShuffles(Ranks) < MaxShuffles
    /\ bins' = [bins EXCEPT ![p] = Shuffled(@, nprng[p]).list]
    /\ nprng' = [nprng EXCEPT ![p] = Shuffled(bins[p], @).rng]
    /\ epochs' = [epochs EXCEPT ![p] = Append(@, e)]
    /\ yielded' = [yielded EXCEPT ![p] = NotYielded]
    /\ UNCHANGED <<data_len, batch_size, num_replicas>>
    /\ UNCHANGED <<cachevars, keyvars, datasetvars, collatevars>>

\* DistributedBucketingSampler.shuffle(epoch) on the sampler of rank p.
DistShuffle(p, e) ==
    /\ p \in Ranks
    /\ NShuffles(Ranks) < MaxShuffles
    /\ bins' = [bins EXCEPT ![p] = Permuted(@, Randperm(Len(@), e))]
    /\ epochs' = [epochs EXCEPT ![p] = Append(@, e)]
    /\ yielded' = [yielded EXCEPT ![p] = NotYielded]
    /\ UNCHANGED <<data_len, batch_size, num_replicas, nprng>>
    /\ UNCHANGED <<cachevars, keyvars, datasetvars, collatevars>>

\* DistributedBucketingSampler.__iter__ on the sampler of rank p, consumed.
DistIterate(p) ==
    /\ p \in Ranks
    /\ ~yielded[p].called
    /\ yielded' = [yielded EXCEPT ![p] = DistIter(bins[p], p, num_replicas)]
    /\ UNCHANGED <<data_len, batch_size, num_replicas, bins, epochs, nprng>>
    /\ UNCHANGED <<cachevars, keyvars, datasetvars, collatevars>>

NextDist ==
    \/ \E p \in Procs, e \in Epochs : DistShuffle(p, e)
    \/ \E p \in Procs : DistIterate(p)

\* One DistributedBucketingSampler on each rank.
SpecDist == InitSampler /\ [][NextDist]_vars

\* BucketingSampler.__iter__ from bin i on, with the process's np.random
\* generator in state x: np.random.shuffle(ids) on each bin in turn, in place.
RECURSIVE BucketIter(_, _, _)
BucketIter(b, i, x) ==
    IF i > Len(b)
    THEN [bins |-> b, rng |-> x]
    ELSE LET r == Shuffled(b[i], x)
         IN BucketIter([b EXCEPT ![i] = r.list], i + 1, r.rng)

\* BucketingSampler.shuffle(epoch) on process p's sampler:
\* np.random.shuffle(self.bins); epoch is not used.
BucketShuffle(p, e) ==
    /\ p \in Ranks
    /\ NShuffles(Ranks) < MaxShuffles
    /\ bins' = [bins EXCEPT ![p] = Shuffled(@, nprng[p]).list]
    /\ nprng' = [nprng EXCEPT ![p] = Shuffled(bins[p], @).rng]
    /\ epochs' = [epochs EXCEPT ![p] = Append(@, e)]
    /\ yielded' = [yielded EXCEPT ![p] = NotYielded]
    /\ UNCHANGED <<data_len, batch_size, num_replicas>>
    /\ UNCHANGED <<cachevars, keyvars, datasetvars, collatevars>>

\* BucketingSampler.__iter__ on process p's sampler, consumed.
BucketIterate(p) ==
    /\ p \in Ranks
    /\ ~yielded[p].called
    /\ LET r == BucketIter(bins[p], 1, nprng[p])
       IN /\ bins' = [bins EXCEPT ![p] = r.bins]
          /\ nprng' = [nprng EXCEPT ![p] = r.rng]
          /\ yielded' = [yielded EXCEPT ![p] =
                           [ok |-> TRUE, called |-> TRUE, samples |-> r.bins]]
    /\ UNCHANGED <<data_len, batch_size, num_replicas, epochs>>
    /\ UNCHANGED <<cachevars, keyvars, datasetvars, collatevars>>

NextBucket ==
    \/ \E p \in Procs, e \in Epochs : BucketShuffle(p, e)
    \/ \E p \in Procs : BucketIterate(p)

\* One BucketingSampler in each process.
SpecBucket == InitSampler /\ [][NextBucket]_vars

\* ---------------------------------------------------------------- dataset
\* The manifest rows read by __init__: n distinct entries.
Manifest(n) == [i \in 1..n |-> i]

\* The subsequences of a list.
RECURSIVE SubLists(_)
SubLists(l) ==
    IF l = <<>> THEN {<<>>}
    ELSE LET rest == SubLists(Tail(l))
         IN rest \cup {<<Head(l)>> \o r : r \in rest}

\* Curriculum.sample(all_ids, get_curriculum_info, epoch, min=len(all_ids) / 2)
\* as the specification describes it: a subset of the entries, at least half
\* of them; all_ids itself is left as it is.
CurriculumSample(all) == {l \in SubLists(all) : 2 * Len(l) >= Len(all)}

\* SpectrogramDataset.__init__: self.all_ids and self.ids are the same list
\* object; the process's np.random generator is in any state.
InitDataset ==
    /\ \E n \in 0..MaxSamples : lists = [all |-> Manifest(n), other |-> <<>>]
    /\ ids = "all"
    /\ size = Len(lists.all)
    /\ last = NotCalled
    /\ item = NoItem
    /\ data_len = 0
    /\ batch_size = 1
    /\ num_replicas = 1
    /\ bins = [p \in Procs |-> <<>>]
    /\ epochs = [p \in Procs |-> <<>>]
    /\ yielded = [p \in Procs |-> NotYielded]
    /\ \E x \in 0..(NRng - 1) : nprng = [p \in Procs |-> (x + p) % 16]
    /\ CacheParked /\ KeyParked /\ CollateParked

\* set_curriculum_epoch without the copy: self.ids = self.all_ids, shuffled
\* in place.
SetCurriculumEpochNoCopy(e, sample) ==
    /\ \E new \in (IF sample THEN CurriculumSample(lists.all) ELSE {lists.all}) :
          LET target == IF sample THEN "other" ELSE "all"
              r == Shuffled(new, Seeded(e))
          IN /\ ids' = target
             /\ lists' = [lists EXCEPT ![target] = r.list]
             /\ nprng' = [nprng EXCEPT ![0] = r.rng]
             /\ size' = Len(r.list)
    /\ last' = [epoch |-> e, sample |-> sample, called |-> TRUE]
    /\ item' = NoItem
    /\ UNCHANGED <<data_len, batch_size, num_replicas, bins, epochs, yielded>>
    /\ UNCHANGED <<cachevars, keyvars, collatevars>>

\* set_curriculum_epoch(epoch, sample): self.ids becomes a new list (the
\* curriculum's sample, or a copy of self.all_ids), np.random.seed(epoch),
\* np.random.shuffle(self.ids), self.size = len(self.ids).
SetCurriculumEpoch(e, sample) ==
    /\ \E new \in (IF sample THEN CurriculumSample(lists.all) ELSE {lists.all}) :
          LET r == Shuffled(new, Seeded(e))
          IN /\ ids' = "other"
             /\ lists' = [lists EXCEPT !["other"] = r.list]
             /\ nprng' = [nprng EXCEPT ![0] = r.rng]
             /\ size' = Len(r.list)
    /\ last' = [epoch |-> e, sample |-> sample, called |-> TRUE]
    /\ item' = NoItem
    /\ UNCHANGED <<data_len, batch_size, num_replicas, bins, epochs, yielded>>
    /\ UNCHANGED <<cachevars, keyvars, collatevars>>

\* __getitem__(index): sample = self.ids[index], IndexError past the end.
GetItem(i) ==
    /\ item' = IF i < Len(lists[ids])
               THEN [ok |-> TRUE, index |-> i, sample |-> lists[ids][i + 1]]
               ELSE [ok |-> FALSE, index |-> i, sample |-> 0]
    /\ UNCHANGED <<lists, ids, size, last>>
    /\ UNCHANGED <<cachevars, keyvars, samplervars, collatevars>>

NextDataset ==
    \/ \E e \in Epochs, sample \in BOOLEAN : SetCurriculumEpoch(e, sample)
    \/ \E i \in 0..(MaxSamples - 1) : GetItem(i)

\* One SpectrogramDataset over the epochs of a training run.
SpecDataset == InitDataset /\ [][NextDataset]_vars

\* ------------------------------------------------- sampler over a dataset
\* The sample indices in a list of bins.
Indices(b) == UNION {{b[k][j] : j \in 1..Len(b[k])} : k \in 1..Len(b)}

\* A SpectrogramDataset as constructed and, in the same process, a
\* BucketingSampler(dataset, batch_size) built over it:
\* ids = list(range(0, len(data_source))) with len(dataset) = self.size.
InitLoader ==
    /\ \E n \in 0..MaxSamples : lists = [all |-> Manifest(n), other |-> <<>>]
    /\ ids = "all"
    /\ size = Len(lists.all)
    /\ last = NotCalled
    /\ item = NoItem
    /\ data_len = size
    /\ batch_size \in 1..MaxBatch
    /\ num_replicas = 1
    /\ bins = [p \in Procs |-> IF p = 0 THEN MakeBins(data_len, batch_size) ELSE <<>>]
    /\ epochs = [p \in Procs |-> <<>>]
    /\ yielded = [p \in Procs |-> NotYielded]
    /\ \E x \in 0..(NRng - 1) : nprng = [p \in Procs |-> (x + p) % 16]
    /\ CacheParked /\ KeyParked /\ CollateParked

\* BucketingSampler.__init__(data_source, batch_size) over the dataset as it
\* is now: a new sampler replaces the old one.
BuildSampler ==
    /\ data_len' = size
    /\ bins' = [bins EXCEPT ![0] = MakeBins(size, batch_size)]
    /\ epochs' = [epochs EXCEPT ![0] = <<>>]
    /\ yielded' = [yielded EXCEPT ![0] = NotYielded]
    /\ UNCHANGED <<batch_size, num_replicas, nprng>>
    /\ UNCHANGED <<cachevars, keyvars, datasetvars, collatevars>>

\* The data loader fetches dataset[i] for an index i the sampler yielded.
Fetch == \E i \in Indices(yielded[0].samples) : GetItem(i)

NextLoader ==
    \/ BuildSampler
    \/ \E e \in Epochs, sample \in BOOLEAN : SetCurriculumEpoch(e, sample)
    \/ \E e \in Epochs : BucketShuffle(0, e)
    \/ BucketIterate(0)
    \/ Fetch

\* A dataset and the sampler over it across the epochs of a training run.
SpecLoader == InitLoader /\ [][NextLoader]_vars

\* ------------------------------------------------------------- _collate_fn
\* The sample at position i of a batch, T frames long with L labels: the
\* feature tensor (its frames, none of them zero), the label sequence, the path.
Sample(i, T, L) ==
    [tensor |-> [t \in 1..T |-> i], target |-> [j \in 1..L |-> i], path |-> i]

\* sample[0].size(1)
Size1(sample) == Len(sample.tensor)

\* Insertion of sample x into a list sorted by descending time length, after
\* the samples that are as long (sorted() is stable, also with reverse=True).
RECURSIVE Insert(_, _)
Insert(l, x) ==
    IF l = <<>> THEN <<x>>
    ELSE IF Size1(Head(l)) >= Size1(x)
         THEN <<Head(l)>> \o Insert(Tail(l), x)
         ELSE <<x>> \o l

\* The same sort without reverse=True: ascending time length.
RECURSIVE SortedAscending(_)
SortedAscending(b) ==
    IF b = <<>> THEN <<>>
    ELSE LET rest == SortedAscending(SubSeq(b, 1, Len(b) - 1))
             x == b[Len(b)]
             before == SelectSeq(rest, LAMBDA y : Size1(y) <= Size1(x))
             after == SelectSeq(rest, LAMBDA y : Size1(y) > Size1(x))
         IN before \o <<x>> \o after

\* sorted(batch, key=lambda sample: sample[0].size(1), reverse=True)
RECURSIVE SortedByLength(_)
SortedByLength(b) ==
    IF b = <<>> THEN <<>>
    ELSE Insert(SortedByLength(SubSeq(b, 1, Len(b) - 1)), b[Len(b)])

\* max(batch, key=func): the first of the longest samples.
RECURSIVE Longest(_)
Longest(b) ==
    IF Len(b) = 1 THEN b[1]
    ELSE LET m == Longest(SubSeq(b, 1, Len(b) - 1))
         IN IF Size1(b[Len(b)]) > Size1(m) THEN b[Len(b)] ELSE m

\* targets.extend(target) over the rows from x on.
RECURSIVE Extend(_, _)
Extend(b, x) == IF x > Len(b) THEN <<>> ELSE b[x].target \o Extend(b, x + 1)

\* _collate_fn(batch) for a non-empty batch.
CollateFn(b) ==
    LET sorted == SortedByLength(b)
        max_seqlength == Size1(Longest(sorted))
        minibatch_size == Len(sorted)
    IN [called |-> TRUE,
        inputs |-> [x \in 1..minibatch_size |->
                      [t \in 1..max_seqlength |->
                          IF t <= Size1(sorted[x]) THEN sorted[x].tensor[t] ELSE 0]],
        targets |-> Extend(sorted, 1),
        filenames |-> [x \in 1..minibatch_size |-> sorted[x].path],
        input_percentages |-> [x \in 1..minibatch_size |->
                                 <<Size1(sorted[x]), max_seqlength>>],
        target_sizes |-> [x \in 1..minibatch_size |-> Len(sorted[x].target)]]

\* A non-empty batch of samples, as the data loader hands it to _collate_fn.
InitCollate ==
    /\ \E n \in 1..MaxRows :
          \E T \in [1..n -> 1..MaxFrames], L \in [1..n -> 0..MaxTarget] :
              batch = [i \in 1..n |-> Sample(i, T[i], L[i])]
    /\ collated = NotCollated
    /\ CacheParked /\ KeyParked /\ SamplerParked /\ DatasetParked

\* The data loader calls _collate_fn(batch).
Collate ==
    /\ ~collated.called
    /\ collated' = CollateFn(batch)
    /\ UNCHANGED batch
    /\ UNCHANGED <<cachevars, keyvars, samplervars, datasetvars>>

NextCollate == Collate

\* One batch, collated.
SpecCollate == InitCollate /\ [][NextCollate]_vars

\* ----------------------------------------------------------------- claims
AllOut == \A w \in Workers : Out(w)

\* The worker's last call reached the cache write of the canonical variant:
\* it missed, computed, and got to np.save and os.rename.
Stored(w) ==
    /\ pc[w] \in {"returned", "raised"}
    /\ tempo_id[w] = 0
    /\ lookup[w] \in {"miss", "bad"}
    /\ err[w] \in {"none", "rename"}

\* No chunk of the file is left over from a file that was corrupt to begin with.
NoJunk(f) == \A i \in 1..Len(f.data) : f.data[i] # Junk

\* C1: with workers writing the same cache key concurrently (no interrupt, no
\* OS error), the file under the final cache name, whenever it exists and was
\* written by parse_audio, is a complete spectrogram file: no reader can see a
\* partially written file under cache_fn.
C1_FinalNameNeverPartial ==
    (nfaults = 0 /\ cache[0].ex /\ NoJunk(cache[0])) => Complete(cache[0])

Solo(w) == \A v \in Workers \ {w} : pc[v] = "idle"

\* Worker w is about to return from a call for the canonical variant that
\* directly follows a call of its own for the canonical variant which
\* returned, with no other worker and no interrupt or OS error in the run.
SecondCall(w) ==
    /\ pc[w] = "finish"
    /\ tempo_id[w] = 0
    /\ prev[w] # NoSpect
    /\ Solo(w)
    /\ nfaults = 0

\* C3 as stated: the second of two successive parse_audio calls for tempo
\* variant 0 is served from the cache (no STFT recomputation) and returns the
\* very tensor the first call returned.
C3_SecondCallIdentical ==
    \A w \in Workers :
        SecondCall(w) =>
            /\ lookup[w] = "hit"
            /\ \A v \in Returns(spect[w]) : v = prev[w]

\* C3 amended: the second call is always served from the cache, and it
\* returns the very tensor the first call returned unless augment is on with
\* normalize = 'max_frame', where each call adds a random jitter of its own.
C3_SecondCallFromCache ==
    \A w \in Workers :
        SecondCall(w) =>
            /\ lookup[w] = "hit"
            /\ (~(augment /\ normalize = "max_frame"))
                  => \A v \in Returns(spect[w]) : v = prev[w]

\* C3 witness: a second call about to return from the cache the tensor the
\* first call returned, which was computed in this run.
C3_Witness ==
    \E w \in Workers :
        /\ SecondCall(w)
        /\ lookup[w] = "hit"
        /\ spect[w] = prev[w]
        /\ spect[w].norm = normalize
        /\ spect[w].gain = NGains

\* C4: only tempo variant 0 ever has a cache entry, legacy migration
\* included: no file exists under the cache name of variant 1 or 2, and no
\* call that drew variant 1 or 2 is answered from a cache file.
C4_OnlyCanonicalCached ==
    /\ \A t \in TEMPOS \ {0} : ~cache[t].ex
    /\ \A w \in Workers : lookup[w] = "hit" => tempo_id[w] = 0

\* C5: what parse_audio writes to the cache is the pre-normalization
\* spectrogram, and on a hit the cached spectrogram is normalized with the
\* configured mode before it is returned.
C5_CacheHoldsPreNormalization ==
    /\ \A i \in 1..Len(tmp.data) : tmp.data[i].norm \in {"raw", "hole"}
    /\ \A w \in Workers :
          (pc[w] = "finish" /\ lookup[w] = "hit") => spect[w].norm = normalize

\* Worker w has computed the canonical entry and holds it for the cache write.
Computed(w) ==
    /\ pc[w] \in {"open", "write", "rename"} \/ Renamed(w)
    /\ tempo_id[w] = 0

\* C6: any two writers that compute the entry of the same cache key for
\* tempo variant 0 under the same configuration hold equivalent spectrograms.
C6_CanonicalDeterministic ==
    \A w, v \in Workers :
        (Computed(w) /\ Computed(v)) => spect[w] = spect[v]

\* C7: a cache file that does not deserialize is a miss, never a failure of
\* the call: no call ends with the load's exception; a call whose np.load
\* raised and that returns, returns a spectrogram it computed itself; and with
\* the write undisturbed (no other worker, no interrupt or OS error) and a
\* recognised normalization mode such a call does return.
C7_CorruptEntryIsMiss ==
    \A w \in Workers :
        /\ err[w] # "load"
        /\ (lookup[w] = "bad" /\ pc[w] = "returned")
              => (spect[w].gain \in Gains /\ spect[w].norm = normalize)
        /\ (lookup[w] = "bad" /\ Out(w) /\ Solo(w) /\ nfaults = 0
              /\ normalize \in KnownModes)
              => pc[w] = "returned"

\* C7 witness: a call found a file that does not deserialize, recomputed and
\* returned, and the cache now holds what it computed.
C7_Witness ==
    \E w \in Workers :
        /\ lookup[w] = "bad"
        /\ pc[w] = "returned"
        /\ Complete(cache[0])
        /\ Unpickle(cache[0]).gain = spect[w].gain

\* C8: after a cache write was interrupted by a KeyboardInterrupt and the
\* call has ended, with no other worker around, no partial artifact is left:
\* the temporary file is gone and whatever is under cache_fn is complete.
C8_InterruptLeavesNoArtifact ==
    \A w \in Workers :
        (Out(w) /\ intr[w] /\ Solo(w))
            => (~tmp.ex /\ (cache[0].ex => Complete(cache[0])))

\* C9: a call whose cache write was interrupted ends by raising to its
\* caller; it does not swallow the interrupt and return a result.  (Any
\* exception leaving the call is counted as propagation here, also the
\* FileNotFoundError of the except clause's os.unlink.)
C9_InterruptPropagates ==
    \A w \in Workers : (Out(w) /\ intr[w]) => pc[w] = "raised"

\* C10: a failure to persist the spectrogram that is not an interruption (the
\* temporary write or the rename fails) is not fatal: no call ends by raising
\* it.
C10_PersistFailureNotFatal ==
    \A w \in Workers : err[w] \notin {"save", "rename"}

\* C11: legacy migration is best-effort: a call that found the legacy file
\* and no file under cache_fn moves it before reading, and a move that fails
\* because another worker moved the file in between is not fatal: no call ends
\* with the move's exception, the lookup goes on to a hit or a miss.
C11_MigrationNonFatal ==
    \A w \in Workers : err[w] # "move"

\* C19: a parser configured with a normalization mode normalize_audio has no
\* branch for never returns a feature tensor: no parse_audio call of it, on a
\* cache hit as on a miss, ends by returning.  (A call that ends with another
\* exception than the configuration error is not counted against the claim.)
C19_UnknownModeIsFatal ==
    \A w \in Workers : normalize \notin KnownModes => pc[w] # "returned"

\* The content hash, tempo name and channel name a cache path was derived from.
KeyOf(k) == <<k.dir, k.file[2], k.file[3], k.file[4]>>

\* C12: the entry a lookup finds depends only on the file's content hash, the
\* tempo variant and the channel selector: whenever an entry exists that was
\* stored for the bytes the audio file has now, the tempo variant looked up
\* and the channel, whatever name the file had then, the lookup is a hit.
C12_KeyIsContentTempoChannel ==
    (/\ found.res # "none"
     /\ \E k \in entries :
           KeyOf(k) = KeyOf(CacheFn(audio.name, audio.bytes, found.tempo, channel)))
        => found.res = "hit"

\* The bins of a bin list, as a set.
BinSet(b) == {b[i] : i \in 1..Len(b)}

\* The bins the ranks' iterators gave, all ranks together.
YieldedBins == UNION {BinSet(yielded[p].samples) : p \in Ranks}

\* How many bins the ranks' iterators gave, all ranks together.
RECURSIVE NYielded(_)
NYielded(P) ==
    IF P = {} THEN 0
    ELSE LET p == CHOOSE q \in P : TRUE IN Len(yielded[p].samples) + NYielded(P \ {p})

\* Every rank has iterated, after the same shuffle calls on all ranks.
EpochDone == \A p \in Ranks : yielded[p].called /\ epochs[p] = epochs[0]

\* C13: once every rank has iterated in an epoch, the shuffle calls having
\* been the same on all ranks, every rank's iteration succeeded, the bins the
\* ranks yielded are together exactly the bins of the sampler (none skipped),
\* and the duplicates among them are exactly the wrap-around padding.
C13_RanksCoverAllBins ==
    EpochDone =>
        /\ \A p \in Ranks : yielded[p].ok
        /\ YieldedBins = BinSet(bins[0])
        /\ NYielded(Ranks) - Cardinality(YieldedBins)
              = TotalSize(bins[0], num_replicas) - Len(bins[0])

\* C20: whatever the number of replicas and of bins, __iter__ pads the bin
\* list to exactly total_size: the assertion holds on every rank, and the rank
\* yields exactly __len__() = ceil(number of bins / num_replicas) bins.
C20_PaddingReachesTotalSize ==
    \A p \in Ranks :
        yielded[p].called =>
            /\ yielded[p].ok
            /\ Len(yielded[p].samples) = NumSamples(bins[p], num_replicas)

\* Ranks p and q hold fresh samplers shuffled once each, with epochs e and f.
ShuffledOnce(p, e, q, f) ==
    /\ p \in Ranks /\ q \in Ranks /\ p # q
    /\ epochs[p] = <<e>>
    /\ epochs[q] = <<f>>

\* C14 as stated: two fresh samplers with the same initial state that each
\* call shuffle(e) hold identical bin orderings, whatever the states of the
\* processes' random generators; and two fresh samplers that call shuffle
\* with different epochs hold different bin orderings.
C14_SameEpochSameDifferentEpochDifferent ==
    \A p, q \in Procs : \A e, f \in Epochs :
        ShuffledOnce(p, e, q, f) => ((bins[p] = bins[q]) <=> (e = f))

\* C14 amended: two fresh samplers with the same initial state that each call
\* shuffle(e) hold identical bin orderings, whatever the states of the
\* processes' random generators.  (Different epochs need not give different
\* orderings.)
C14_SameEpochSameOrder ==
    \A p, q \in Procs : \A e \in Epochs :
        ShuffledOnce(p, e, q, e) => bins[p] = bins[q]

\* C14 witness: two ranks whose np.random generators are in different states
\* shuffled with the same epoch and hold the same ordering, which is not the
\* ordering the samplers were constructed with.
C14_Witness ==
    \E p, q \in Procs : \E e \in Epochs :
        /\ ShuffledOnce(p, e, q, e)
        /\ nprng[p] # nprng[q]
        /\ bins[p] = bins[q]
        /\ bins[p] # MakeBins(data_len, batch_size)

\* C15: the bins a rank receives in an epoch are a function of the epoch, the
\* rank and num_replicas only: after shuffle(e), whatever shuffle calls came
\* before on that sampler, its __iter__ gives what it gives on a fresh sampler
\* that called shuffle(e) only.
C15_YieldDependsOnEpochOnly ==
    \A p \in Ranks :
        (yielded[p].called /\ epochs[p] # <<>>) =>
            LET e == epochs[p][Len(epochs[p])]
                fresh == MakeBins(data_len, batch_size)
            IN yielded[p] = DistIter(Permuted(fresh, Randperm(Len(fresh), e)),
                                     p, num_replicas)

\* C16: BucketingSampler's shuffles are seeded by the epoch: two fresh
\* samplers that call shuffle with the same epoch hold the same bin order,
\* and their following __iter__ give the same bins with the same order of
\* indices within each bin, whatever state the processes' np.random
\* generators were in.
C16_BucketShuffleSeededByEpoch ==
    \A p, q \in Procs : \A e \in Epochs :
        ShuffledOnce(p, e, q, e) =>
            /\ (~yielded[p].called /\ ~yielded[q].called) => bins[p] = bins[q]
            /\ (yielded[p].called /\ yielded[q].called) => yielded[p] = yielded[q]

\* C17: after set_curriculum_epoch(e, sample=False), whatever calls came
\* before, the active list holds every manifest entry exactly once, in the
\* order a shuffle seeded with e gives the manifest (so an order that depends
\* on e only), len(dataset) is the full count, and the stored full list
\* self.all_ids is the manifest as read.
C17_ResetRestoresFullManifest ==
    \E n \in 0..MaxSamples :
        /\ lists.all = Manifest(n)
        /\ (last.called /\ ~last.sample) =>
              /\ Len(lists[ids]) = n
              /\ BinSet(lists[ids]) = BinSet(Manifest(n))
              /\ lists[ids] = Shuffled(Manifest(n), Seeded(last.epoch)).list
              /\ size = n

\* C17 witness: set_curriculum_epoch(e, sample=False) was the last call on a
\* dataset of MaxSamples entries: the active list is the whole manifest in
\* another order than the manifest's, and self.all_ids is the manifest still.
C17_Witness ==
    /\ last.called /\ ~last.sample
    /\ size = MaxSamples
    /\ lists.all = Manifest(MaxSamples)
    /\ lists[ids] # lists.all
    /\ BinSet(lists[ids]) = BinSet(lists.all)

\* The sum of a sequence of numbers.
RECURSIVE Sum(_)
Sum(l) == IF l = <<>> THEN 0 ELSE Head(l) + Sum(Tail(l))

\* The longest time length of the batch.
TMax == CHOOSE m \in 1..MaxFrames :
            /\ \E i \in 1..Len(batch) : Len(batch[i].tensor) = m
            /\ \A i \in 1..Len(batch) : Len(batch[i].tensor) <= m

\* C18: for a non-empty batch _collate_fn returns one row a sample, the rows
\* in descending order of time length; row x holds the tensor of the sample
\* whose path is filenames[x], zero-padded on the right to T_max, with
\* input fraction T / T_max and that sample's target length; and the
\* target lengths sum up to the length of the concatenated targets.
C18_CollateSortsPadsAligns ==
    collated.called =>
        LET n == Len(batch)
            src(x) == batch[collated.filenames[x]]
        IN /\ Len(collated.inputs) = n
           /\ {collated.filenames[x] : x \in 1..n} = 1..n
           /\ \A x \in 1..(n - 1) : Len(src(x).tensor) >= Len(src(x + 1).tensor)
           /\ \A x \in 1..n :
                 /\ collated.input_percentages[x] = <<Len(src(x).tensor), TMax>>
                 /\ Len(collated.inputs[x]) = TMax
                 /\ SubSeq(collated.inputs[x], 1, Len(src(x).tensor)) = src(x).tensor
                 /\ \A t \in (Len(src(x).tensor) + 1)..TMax : collated.inputs[x][t] = 0
                 /\ collated.target_sizes[x] = Len(src(x).target)
                 /\ SubSeq(collated.targets,
                           Sum(SubSeq(collated.target_sizes, 1, x - 1)) + 1,
                           Sum(SubSeq(collated.target_sizes, 1, x))) = src(x).target
           /\ Sum(collated.target_sizes) = Len(collated.targets)

\* C18 witness: the batch of time lengths 2, 1, 3 was collated: the rows are
\* the third, first and second sample, and the fractions 3/3, 2/3, 1/3.
C18_Witness ==
    /\ collated.called
    /\ Len(batch) = 3
    /\ [i \in 1..3 |-> Len(batch[i].tensor)] = <<2, 1, 3>>
    /\ collated.filenames = <<3, 1, 2>>
    /\ collated.input_percentages = <<<<3, 3>>, <<2, 3>>, <<1, 3>>>>
    /\ Len(collated.targets) > 0

\* C21: whenever the sampler over the dataset is iterated, after any
\* set_curriculum_epoch and shuffle calls, the indices it yields are exactly
\* the indices of the dataset's active sample list: each one is valid,
\* 0 <= index < len(dataset), and every active sample is yielded.
C21_YieldedIndicesAreTheActiveList ==
    [][BucketIterate(0) => Indices(yielded'[0].samples) = 0..(size' - 1)]_vars

====
